---- MODULE Spec2Model ----
(***************************************************************************)
(* Model of .github/scripts/ci-build-matrix.py: one run of main().         *)
(*                                                                         *)
(* Python strings are sequences of one-character strings, so that split,   *)
(* strip, replace, join, sorted and int() are computed as Python computes  *)
(* them.  A Python list is a sequence, a dict a function.  Python indices  *)
(* are 0-based; the sequence position of Python index k is k + 1.          *)
(***************************************************************************)
EXTENDS Integers, Sequences, FiniteSets, Bags, TLC

VARIABLES
    argv,           \* sys.argv (argv[1] is the script name, sys.argv[0])
    stdout_lines,   \* result.stdout.splitlines() of the `bst show` subprocess
    bst_ok,         \* whether `bst show` exits with status 0
    pc,             \* position of main(): start, plan, loaded, matrix, done, exit1, fatal
    target,         \* main: target
    num_chunks,     \* main: num_chunks
    core_split,     \* main: core_split
    elements,       \* main: elements
    core_elements,  \* main: core_elements
    leaf_elements,  \* main: leaf_elements
    core_targets,   \* main: core_targets
    chunks,         \* main: chunks
    idx,            \* main: number of iterations of the matrix loop done
    matrix,         \* main: matrix
    cache_keys,     \* main: cache_keys
    stdout,         \* what main printed to stdout (the result objects)
    stderr          \* what was printed to stderr, oldest first

vars == <<argv, stdout_lines, bst_ok, pc, target, num_chunks, core_split,
          elements, core_elements, leaf_elements, core_targets, chunks, idx,
          matrix, cache_keys, stdout, stderr>>

----------------------------------------------------------------------------
(* Bounds and input domains *)

MaxPlanLen == 3

\* The characters of the inputs, in code point order (for sorted()).
Alphabet == <<"\t", " ", "+", "-", ".", "/",
              "0", "1", "2", "3", "4", "5", "6", "7", "8", "9", ":",
              "U", "a", "b", "c", "d", "e", "f", "g", "h", "i", "j", "k",
              "l", "n", "o", "s", "t", "u", "w", "x", "z", "|">>

Digits == <<"0", "1", "2", "3", "4", "5", "6", "7", "8", "9">>

Whitespace == {" ", "\t"}

\* Lines `bst show --format %{name}||%{state}||%{full-key}` can print, and
\* lines that do not have that form.
LineWaitingA  == <<"a", "|", "|", "w", "a", "i", "t", "i", "n", "g", "|", "|", "k", "1">>
LinePaddedB   == <<" ", "l", "/", "b", ".", "b", "s", "t", " ", "|", "|", " ", "b", "u", "i", "l", "d", "a", "b", "l", "e", " ", "|", "|", " ", "k", "1", " ">>
LineCachedC   == <<"c", "|", "|", "c", "a", "c", "h", "e", "d", "|", "|", "k", "2">>
LineNoKeyD    == <<"d", ".", "b", "s", "t", "x", ".", "b", "s", "t", "|", "|", "w", "a", "i", "t", "i", "n", "g">>
LineJunk      == <<"j", "u", "n", "k">>
LineBlank     == <<" ">>
LineFourE     == <<"e", "|", "|", "f", "a", "i", "l", "e", "d", "|", "|", "k", "2", "|", "|", "z">>

Lines == {LineWaitingA, LinePaddedB, LineCachedC, LineNoKeyD, LineJunk,
          LineBlank, LineFourE}

Plans == UNION {[1..n -> Lines] : n \in 0..MaxPlanLen}

ScriptName == <<"s">>
TargetName == <<"t">>

\* The <num_chunks> and [core_split] command line words.
NumChunksArgs == {<<"0">>, <<"2">>, <<"3">>, <<"x">>}
CoreSplitArgs == {<<"0">>, <<"1">>, <<"-", "1">>, <<"x">>}

Argvs == {<<ScriptName>>, <<ScriptName, TargetName>>}
         \cup {<<ScriptName, TargetName, n>> : n \in NumChunksArgs}
         \cup {<<ScriptName, TargetName, n, c>> : n \in NumChunksArgs, c \in CoreSplitArgs}

----------------------------------------------------------------------------
(* Python built-ins, as the script uses them *)

Min(a, b) == IF a < b THEN a ELSE b
Max(a, b) == IF a > b THEN a ELSE b

Last(s) == s[Len(s)]

\* ord(c)
Ord(c) == CHOOSE k \in 1..Len(Alphabet) : Alphabet[k] = c

RECURSIVE LStrip(_)
LStrip(s) == IF s # <<>> /\ Head(s) \in Whitespace THEN LStrip(Tail(s)) ELSE s

RECURSIVE RStrip(_)
RStrip(s) == IF s # <<>> /\ Last(s) \in Whitespace
             THEN RStrip(SubSeq(s, 1, Len(s) - 1)) ELSE s

\* str.strip()
Strip(s) == RStrip(LStrip(s))

\* str.find(p, from): position of the first occurrence of p at or after
\* position from; 0 when there is none.
RECURSIVE Find(_, _, _)
Find(s, p, from) ==
    IF from + Len(p) - 1 > Len(s) THEN 0
    ELSE IF SubSeq(s, from, from + Len(p) - 1) = p THEN from
    ELSE Find(s, p, from + 1)

\* str.rfind(p): position of the last occurrence of p; 0 when there is none.
RECURSIVE RFindFrom(_, _, _)
RFindFrom(s, p, from) ==
    IF from < 1 THEN 0
    ELSE IF SubSeq(s, from, from + Len(p) - 1) = p THEN from
    ELSE RFindFrom(s, p, from - 1)

RFind(s, p) == RFindFrom(s, p, Len(s) - Len(p) + 1)

\* str.split(sep)
RECURSIVE Split(_, _)
Split(s, sep) ==
    LET k == Find(s, sep, 1)
    IN  IF k = 0 THEN <<s>>
        ELSE <<SubSeq(s, 1, k - 1)>> \o Split(SubSeq(s, k + Len(sep), Len(s)), sep)

\* str.rsplit(sep, 1)
RSplit1(s, sep) ==
    LET k == RFind(s, sep)
    IN  IF k = 0 THEN <<s>>
        ELSE <<SubSeq(s, 1, k - 1), SubSeq(s, k + Len(sep), Len(s))>>

\* str.replace(old, new): every non-overlapping occurrence, left to right
RECURSIVE Replace(_, _, _)
Replace(s, old, new) ==
    LET k == Find(s, old, 1)
    IN  IF k = 0 THEN s
        ELSE SubSeq(s, 1, k - 1) \o new
             \o Replace(SubSeq(s, k + Len(old), Len(s)), old, new)

\* sep.join(strs)
RECURSIVE Join(_, _)
Join(sep, strs) ==
    IF strs = <<>> THEN <<>>
    ELSE IF Len(strs) = 1 THEN strs[1]
    ELSE strs[1] \o sep \o Join(sep, Tail(strs))

\* str(n) for n >= 0, as an f-string formats an index
RECURSIVE IntToStr(_)
IntToStr(n) ==
    IF n < 10 THEN <<Digits[n + 1]>>
    ELSE IntToStr(n \div 10) \o <<Digits[(n % 10) + 1]>>

IsDigit(c) == \E d \in 1..10 : Digits[d] = c
DigitVal(c) == (CHOOSE d \in 1..10 : Digits[d] = c) - 1

RECURSIVE DigitsVal(_)
DigitsVal(ds) ==
    IF ds = <<>> THEN 0
    ELSE 10 * DigitsVal(SubSeq(ds, 1, Len(ds) - 1)) + DigitVal(Last(ds))

\* int(s): surrounding whitespace, an optional sign, then decimal digits;
\* anything else raises ValueError (ok = FALSE).
ParseInt(s) ==
    LET t    == Strip(s)
        sgn  == t # <<>> /\ Head(t) \in {"+", "-"}
        body == IF sgn THEN Tail(t) ELSE t
    IN  IF body # <<>> /\ \A k \in 1..Len(body) : IsDigit(body[k])
        THEN [ok |-> TRUE,
              val |-> IF sgn /\ Head(t) = "-" THEN 0 - DigitsVal(body)
                      ELSE DigitsVal(body)]
        ELSE [ok |-> FALSE, val |-> 0]

\* a < b for str: lexicographic by code point
RECURSIVE StrLess(_, _)
StrLess(a, b) ==
    IF b = <<>> THEN FALSE
    ELSE IF a = <<>> THEN TRUE
    ELSE IF Head(a) = Head(b) THEN StrLess(Tail(a), Tail(b))
    ELSE Ord(Head(a)) < Ord(Head(b))

\* insertion of x into the sorted list s, after the items equal to it
RECURSIVE Insert(_, _)
Insert(x, s) ==
    IF s = <<>> THEN <<x>>
    ELSE IF StrLess(x, Head(s)) THEN <<x>> \o s
    ELSE <<Head(s)>> \o Insert(x, Tail(s))

\* sorted() left out: the keys in chunk order
Unsorted(strs) == strs

\* sorted(strs)
RECURSIVE Sorted(_)
Sorted(strs) ==
    IF strs = <<>> THEN <<>>
    ELSE Insert(Last(strs), Sorted(SubSeq(strs, 1, Len(strs) - 1)))

\* seq[:stop - 1]
SliceToShort(s, stop) ==
    LET e == IF stop - 1 < 0 THEN Max(Len(s) + stop - 1, 0) ELSE Min(stop - 1, Len(s))
    IN  SubSeq(s, 1, e)

\* seq[:stop]
SliceTo(s, stop) ==
    LET e == IF stop < 0 THEN Max(Len(s) + stop, 0) ELSE Min(stop, Len(s))
    IN  SubSeq(s, 1, e)

\* seq[start + 1:]
SliceFromNext(s, start) ==
    LET b == IF start + 1 < 0 THEN Max(Len(s) + start + 1, 0) ELSE Min(start + 1, Len(s))
    IN  SubSeq(s, b + 1, Len(s))

\* seq[start:]
SliceFrom(s, start) ==
    LET b == IF start < 0 THEN Max(Len(s) + start, 0) ELSE Min(start, Len(s))
    IN  SubSeq(s, b + 1, Len(s))

\* seq[start::step] for start >= 0, step >= 1
SliceStep(s, start, step) ==
    LET n == IF start >= Len(s) THEN 0 ELSE ((Len(s) - start - 1) \div step) + 1
    IN  [k \in 1..n |-> s[start + (k - 1) * step + 1]]

\* hashlib.sha256(s.encode()).hexdigest(): the digest is a function of the
\* text only, is never the empty string, and (SHA-256 being collision
\* resistant) differs for different texts; it is kept as the tagged text.
Sha256Hex(s) == <<"sha256:">> \o s

\* dict[k] = v
Put(d, k, v) == [x \in (DOMAIN d) \cup {k} |-> IF x = k THEN v ELSE d[x]]

EmptyDict == [x \in {} |-> <<>>]

----------------------------------------------------------------------------
(* The functions of the script *)

FieldSep   == <<"|", "|">>
CachedWord == <<"c", "a", "c", "h", "e", "d">>
BstExt     == <<".", "b", "s", "t">>
ChunkWord  == <<"c", "h", "u", "n", "k">>
Slash      == <<"/">>
Dash       == <<"-">>
Space      == <<" ">>
Newline    == <<"\n">>

DefaultCoreSplit == 200

\* The subscripts parts[0], parts[1] and, when len(parts) > 2, parts[2] of
\* the try block: IndexError is raised when a subscript is not below
\* len(parts).  (split and strip raise nothing on a str.)
LineRaises(parts) ==
    \/ 0 >= Len(parts)
    \/ 1 >= Len(parts)
    \/ (Len(parts) > 2 /\ 2 >= Len(parts))

\* One iteration of the loop of get_build_plan over result.stdout's lines.
\* acc.elements is `elements`, acc.err what the iteration printed to stderr.
PlanLine(acc, line) ==
    IF Strip(line) = <<>> THEN acc
    ELSE LET parts == Split(line, FieldSep)
         IN  IF Len(parts) < 2 THEN acc
             ELSE IF LineRaises(parts)
             THEN [acc EXCEPT !.err = Append(@, <<"Skipping malformed line", line>>)]
             ELSE LET name     == Strip(parts[1])
                      state    == Strip(parts[2])
                      full_key == IF Len(parts) > 2 THEN Strip(parts[3]) ELSE <<>>
                  IN  IF state # CachedWord
                      THEN [acc EXCEPT !.elements =
                               Append(@, [name |-> name, state |-> state, key |-> full_key])]
                      ELSE acc

\* the loop with `break` in place of `continue` for a line of one field
RECURSIVE PlanLoopBreak(_, _)
PlanLoopBreak(acc, lines) ==
    IF lines = <<>> THEN acc
    ELSE IF Strip(Head(lines)) # <<>> /\ Len(Split(Head(lines), FieldSep)) < 2 THEN acc
    ELSE PlanLoopBreak(PlanLine(acc, Head(lines)), Tail(lines))

RECURSIVE PlanLoop(_, _)
PlanLoop(acc, lines) ==
    IF lines = <<>> THEN acc
    ELSE PlanLoop(PlanLine(acc, Head(lines)), Tail(lines))

get_build_plan(lines) == PlanLoop([elements |-> <<>>, err |-> <<>>], lines)

\* contiguous blocks of ceil(len/n) elements in place of the stride
chunk_list_blocks(data, n) ==
    LET size == (Len(data) + n - 1) \div n
    IN  [c \in 1..n |-> SubSeq(data, (c - 1) * size + 1, Min(c * size, Len(data)))]

chunk_list(data, n) == [c \in 1..n |-> SliceStep(data, c - 1, n)]

make_chunk_name(index, els) ==
    IF els = <<>> THEN ChunkWord \o IntToStr(index)
    ELSE LET first == els[1].name
             label == Replace(Last(RSplit1(first, Slash)), BstExt, <<>>)
         IN  ChunkWord \o IntToStr(index) \o Dash \o label

Names(els) == [k \in 1..Len(els) |-> els[k].name]

HasKey(e) == e.key # <<>>

\* the keys without `if e["key"]`
ElementKeysAll(els) == [k \in 1..Len(els) |-> els[k].key]

ElementKeys(els) ==
    LET keyed == SelectSeq(els, HasKey)
    IN  [k \in 1..Len(keyed) |-> keyed[k].key]

\* the digest without the early return on no keys
compute_cache_key_always(els) ==
    Sha256Hex(Join(Newline, Sorted(ElementKeys(els))))

compute_cache_key(els) ==
    LET keys == Sorted(ElementKeys(els))
    IN  IF keys = <<>> THEN <<>>
        ELSE Sha256Hex(Join(Newline, keys))

----------------------------------------------------------------------------
(* main() *)

Init ==
    /\ argv \in Argvs
    /\ bst_ok \in BOOLEAN
    /\ stdout_lines \in (IF bst_ok THEN Plans ELSE {<<>>})
    /\ pc = "start"
    /\ target = <<>>
    /\ num_chunks = 0
    /\ core_split = 0
    /\ elements = <<>>
    /\ core_elements = <<>>
    /\ leaf_elements = <<>>
    /\ core_targets = <<>>
    /\ chunks = <<>>
    /\ idx = 0
    /\ matrix = EmptyDict
    /\ cache_keys = EmptyDict
    /\ stdout = <<>>
    /\ stderr = <<>>

\* len(sys.argv) < 3: usage message and sys.exit(1)
Usage ==
    /\ pc = "start"
    /\ Len(argv) < 3
    /\ stderr' = Append(stderr, <<"Usage", argv[1]>>)
    /\ pc' = "exit1"
    /\ UNCHANGED <<argv, stdout_lines, bst_ok, target, num_chunks, core_split,
                   elements, core_elements, leaf_elements, core_targets,
                   chunks, idx, matrix, cache_keys, stdout>>

\* int(sys.argv[2]) or int(sys.argv[3]) raises ValueError: uncaught, the
\* interpreter prints the traceback and exits
ArgsValueError ==
    /\ pc = "start"
    /\ Len(argv) >= 3
    /\ \/ ~ParseInt(argv[3]).ok
       \/ (Len(argv) > 3 /\ ~ParseInt(argv[4]).ok)
    /\ stderr' = Append(stderr, <<"Traceback", <<>>>>)
    /\ pc' = "fatal"
    /\ UNCHANGED <<argv, stdout_lines, bst_ok, target, num_chunks, core_split,
                   elements, core_elements, leaf_elements, core_targets,
                   chunks, idx, matrix, cache_keys, stdout>>

ParseArgs ==
    /\ pc = "start"
    /\ Len(argv) >= 3
    /\ ParseInt(argv[3]).ok
    /\ Len(argv) > 3 => ParseInt(argv[4]).ok
    /\ target' = argv[2]
    /\ num_chunks' = ParseInt(argv[3]).val
    /\ core_split' = IF Len(argv) > 3 THEN ParseInt(argv[4]).val ELSE DefaultCoreSplit
    /\ pc' = "plan"
    /\ UNCHANGED <<argv, stdout_lines, bst_ok, elements, core_elements,
                   leaf_elements, core_targets, chunks, idx, matrix,
                   cache_keys, stdout, stderr>>

\* subprocess.run(..., check=True) raises CalledProcessError: uncaught
BstFails ==
    /\ pc = "plan"
    /\ ~bst_ok
    /\ stderr' = Append(stderr, <<"Traceback", <<>>>>)
    /\ pc' = "fatal"
    /\ UNCHANGED <<argv, stdout_lines, bst_ok, target, num_chunks, core_split,
                   elements, core_elements, leaf_elements, core_targets,
                   chunks, idx, matrix, cache_keys, stdout>>

GetBuildPlan ==
    /\ pc = "plan"
    /\ bst_ok
    /\ LET r == get_build_plan(stdout_lines)
       IN  /\ elements' = r.elements
           /\ stderr' = Append(stderr \o r.err, <<"Found", <<Len(r.elements)>>>>)
    /\ pc' = "loaded"
    /\ UNCHANGED <<argv, stdout_lines, bst_ok, target, num_chunks, core_split,
                   core_elements, leaf_elements, core_targets, chunks, idx,
                   matrix, cache_keys, stdout>>

\* nothing to build: the empty matrix
EmitEmpty ==
    /\ pc = "loaded"
    /\ elements = <<>>
    /\ stdout' = Append(stdout, [core |-> <<>>, matrix |-> EmptyDict,
                                 cache_keys |-> EmptyDict, final |-> target])
    /\ pc' = "done"
    /\ UNCHANGED <<argv, stdout_lines, bst_ok, target, num_chunks, core_split,
                   elements, core_elements, leaf_elements, core_targets,
                   chunks, idx, matrix, cache_keys, stderr>>

SplitCoreLeaf ==
    /\ pc = "loaded"
    /\ elements # <<>>
    /\ LET core == SliceTo(elements, core_split)
           leaf == SliceFrom(elements, core_split)
       IN  /\ core_elements' = core
           /\ leaf_elements' = leaf
           /\ core_targets' = Join(Space, Names(core))
           /\ chunks' = IF leaf # <<>> /\ num_chunks > 0
                        THEN chunk_list(leaf, Min(num_chunks, Len(leaf)))
                        ELSE <<>>
    /\ matrix' = EmptyDict
    /\ cache_keys' = EmptyDict
    /\ idx' = 0
    /\ pc' = "matrix"
    /\ UNCHANGED <<argv, stdout_lines, bst_ok, target, num_chunks, core_split,
                   elements, stdout, stderr>>

\* one iteration of `for i, chunk in enumerate(chunks)`
MatrixStep ==
    /\ pc = "matrix"
    /\ idx < Len(chunks)
    /\ LET chunk == chunks[idx + 1]
           name  == make_chunk_name(idx, chunk)
           key   == compute_cache_key(chunk)
       IN  IF chunk = <<>>
           THEN UNCHANGED <<matrix, cache_keys>>
           ELSE /\ matrix' = Put(matrix, name, Join(Space, Names(chunk)))
                /\ cache_keys' = IF key # <<>> THEN Put(cache_keys, name, key)
                                 ELSE cache_keys
    /\ idx' = idx + 1
    /\ UNCHANGED <<argv, stdout_lines, bst_ok, pc, target, num_chunks,
                   core_split, elements, core_elements, leaf_elements,
                   core_targets, chunks, stdout, stderr>>

EmitResult ==
    /\ pc = "matrix"
    /\ idx = Len(chunks)
    /\ stdout' = Append(stdout, [core |-> core_targets, matrix |-> matrix,
                                 cache_keys |-> cache_keys, final |-> target])
    /\ pc' = "done"
    /\ UNCHANGED <<argv, stdout_lines, bst_ok, target, num_chunks, core_split,
                   elements, core_elements, leaf_elements, core_targets,
                   chunks, idx, matrix, cache_keys, stderr>>

Next ==
    \/ Usage
    \/ ArgsValueError
    \/ ParseArgs
    \/ BstFails
    \/ GetBuildPlan
    \/ EmitEmpty
    \/ SplitCoreLeaf
    \/ MatrixStep
    \/ EmitResult

Spec == Init /\ [][Next]_vars

TypeOK ==
    /\ pc \in {"start", "plan", "loaded", "matrix", "done", "exit1", "fatal"}
    /\ idx \in 0..Len(chunks)
    /\ Len(stdout) <= 1

----------------------------------------------------------------------------
(* Vocabulary of the properties *)

Range(s) == {s[k] : k \in DOMAIN s}

SeqBag(s) == [x \in Range(s) |-> Cardinality({k \in DOMAIN s : s[k] = x})]

\* The names of a space-joined string of names.
Words(str) == IF str = <<>> THEN <<>> ELSE Split(str, Space)

RECURSIVE MatrixWords(_, _)
MatrixWords(m, D) ==
    IF D = {} THEN <<>>
    ELSE LET k == CHOOSE x \in D : TRUE
         IN  Words(m[k]) \o MatrixWords(m, D \ {k})

\* The names of `core` and of all `matrix` entries of an output.
OutputNames(out) == Words(out.core) \o MatrixWords(out.matrix, DOMAIN out.matrix)

Printed == pc = "done" /\ Len(stdout) = 1

\* The matrix loop is past the chunk of Python index c.
Processed == 0..(idx - 1)

ChunkAt(c) == chunks[c + 1]

\* The composite key main recorded for the chunk of index c ("" when none).
RecordedKey(c) ==
    LET name == make_chunk_name(c, ChunkAt(c))
    IN  IF name \in DOMAIN cache_keys THEN cache_keys[name] ELSE <<>>

KeySet(els) == {els[k].key : k \in DOMAIN els} \ {<<>>}

\* How many elements carry each non-empty key.
KeyBag(els) ==
    [x \in KeySet(els) |-> Cardinality({k \in DOMAIN els : els[k].key = x})]

Permuted(els, p) == [k \in 1..Len(els) |-> els[p[k]]]

\* Any grouping of the run's elements into a list of at most n elements.
Groupings(n) == UNION {[1..k -> Range(elements)] : k \in 0..n}

----------------------------------------------------------------------------
(* C1 *)

\* C1 as stated: for coreSplit >= 0 and numChunks >= 0 the names of `core`
\* and of all `matrix` entries of the output are exactly the filtered
\* elements, each once.
C1_AnyNumChunks ==
    (Printed /\ core_split >= 0 /\ num_chunks >= 0)
        => SeqBag(OutputNames(stdout[1])) = SeqBag(Names(elements))

\* C1 (amended): partition completeness.  For coreSplit >= 0 and
\* numChunks >= 1 the names of `core` together with the names of all
\* `matrix` entries of the output are exactly the filtered elements, each
\* appearing exactly once.
C1_PartitionComplete ==
    (Printed /\ core_split >= 0 /\ num_chunks >= 1)
        => SeqBag(OutputNames(stdout[1])) = SeqBag(Names(elements))

C1_Witness ==
    /\ Printed
    /\ core_split >= 1
    /\ num_chunks >= 1
    /\ Len(elements) = 3
    /\ Cardinality(DOMAIN stdout[1].matrix) = 2

----------------------------------------------------------------------------
(* C2 *)

\* C2: round-robin coverage.  For a leaf group of size L >= 1 and
\* numChunks N >= 1, with m = min(N, L), there are m chunks, chunk j holds
\* exactly the leaves of index j, j+m, j+2m, ... in that order, every chunk
\* has floor(L/m) or ceil(L/m) elements, and reading the chunks in turn
\* gives back the leaf order.
C2_RoundRobin ==
    (pc \in {"matrix", "done"} /\ leaf_elements # <<>> /\ num_chunks >= 1) =>
        LET L == Len(leaf_elements)
            m == Min(num_chunks, L)
        IN  /\ Len(chunks) = m
            /\ \A j \in 0..(m - 1) :
                  /\ Len(ChunkAt(j)) = Cardinality({k \in 0..(L - 1) : k % m = j})
                  /\ Len(ChunkAt(j)) \in {L \div m, (L + m - 1) \div m}
                  /\ \A k \in 1..Len(ChunkAt(j)) :
                        ChunkAt(j)[k] = leaf_elements[j + (k - 1) * m + 1]
            /\ \A k \in 0..(L - 1) :
                  leaf_elements[k + 1] = ChunkAt(k % m)[(k \div m) + 1]

C2_Witness ==
    /\ pc = "done"
    /\ Len(leaf_elements) = 3
    /\ num_chunks = 2
    /\ Len(chunks) = 2
    /\ Len(chunks[1]) = 2
    /\ Len(chunks[2]) = 1
    /\ chunks[1][1] # chunks[1][2]
    /\ chunks[1][2] # chunks[2][1]

----------------------------------------------------------------------------
(* C3 *)

\* C3 as stated: a chunk and any grouping of elements carrying the same set
\* of non-empty keys have the same composite key, however many elements
\* carry each key.
C3_SameKeySet ==
    \A c \in Processed :
        \A g \in Groupings(Len(ChunkAt(c)) + 1) :
            KeySet(g) = KeySet(ChunkAt(c))
                => compute_cache_key(g) = RecordedKey(c)

\* C3 (amended): composite key invariance under regrouping.  A chunk and
\* any grouping of elements carrying the same non-empty keys the same number
\* of times have the same composite key, whatever the elements, their order
\* and the elements without a key.
C3_SameKeyBag ==
    \A c \in Processed :
        \A g \in Groupings(Len(ChunkAt(c)) + 1) :
            KeyBag(g) = KeyBag(ChunkAt(c))
                => compute_cache_key(g) = RecordedKey(c)

C3_Witness ==
    /\ pc = "done"
    /\ \E c \in Processed :
          /\ RecordedKey(c) # <<>>
          /\ \E g \in Groupings(Len(ChunkAt(c)) + 1) :
                /\ KeyBag(g) = KeyBag(ChunkAt(c))
                /\ Len(g) # Len(ChunkAt(c))
                /\ \E k \in DOMAIN g : g[k] \notin Range(ChunkAt(c))
                /\ compute_cache_key(g) = RecordedKey(c)

----------------------------------------------------------------------------
(* C4 *)

\* C4: composite key order-invariance.  For every chunk and every
\* permutation of its elements, compute_cache_key of the permuted chunk is
\* the composite key of the chunk.
C4_OrderInvariant ==
    \A c \in Processed :
        \A p \in Permutations(1..Len(ChunkAt(c))) :
            compute_cache_key(Permuted(ChunkAt(c), p)) = RecordedKey(c)

C4_Witness ==
    /\ pc = "done"
    /\ \E c \in Processed :
          /\ Len(ChunkAt(c)) >= 2
          /\ \E k \in 1..(Len(ChunkAt(c)) - 1) :
                /\ ChunkAt(c)[k + 1].key # <<>>
                /\ StrLess(ChunkAt(c)[k + 1].key, ChunkAt(c)[k].key)
          /\ RecordedKey(c) # <<>>

----------------------------------------------------------------------------
(* C5 *)

\* C5: in every output the names of cache_keys are names of matrix, every
\* non-empty chunk is in matrix, and a chunk is missing from cache_keys
\* exactly when none of its elements has a non-empty key.
C5_CacheKeysOfMatrix ==
    Printed =>
        LET out == stdout[1]
        IN  /\ DOMAIN out.cache_keys \subseteq DOMAIN out.matrix
            /\ DOMAIN out.matrix =
                  {make_chunk_name(c, ChunkAt(c)) : c \in 0..(Len(chunks) - 1)}
            /\ \A c \in 0..(Len(chunks) - 1) :
                  LET name == make_chunk_name(c, ChunkAt(c))
                  IN  /\ name \in DOMAIN out.matrix
                      /\ name \notin DOMAIN out.cache_keys
                            <=> (\A k \in DOMAIN ChunkAt(c) : ChunkAt(c)[k].key = <<>>)

C5_Witness ==
    /\ Printed
    /\ Cardinality(DOMAIN stdout[1].matrix) = 2
    /\ Cardinality(DOMAIN stdout[1].cache_keys) = 1

----------------------------------------------------------------------------
(* C6 *)

\* The last path segment of a name.
LastSegment(name) ==
    IF \E k \in DOMAIN name : name[k] = "/"
    THEN LET k == CHOOSE k \in DOMAIN name :
                     /\ name[k] = "/"
                     /\ \A h \in (k + 1)..Len(name) : name[h] # "/"
         IN  SubSeq(name, k + 1, Len(name))
    ELSE name

\* A segment without the extension, where the extension is its suffix.
WithoutSuffix(seg, ext) ==
    IF Len(seg) >= Len(ext) /\ SubSeq(seg, Len(seg) - Len(ext) + 1, Len(seg)) = ext
    THEN SubSeq(seg, 1, Len(seg) - Len(ext))
    ELSE seg

\* C6: chunk naming.  Every non-empty chunk of index c is named
\* "chunk<c>-<label>", the label being the last path segment of the first
\* element's name without a trailing ".bst", the rest of the segment kept.
C6_ChunkName ==
    \A c \in Processed :
        ChunkAt(c) # <<>> =>
            (ChunkWord \o IntToStr(c) \o Dash
                \o WithoutSuffix(LastSegment(ChunkAt(c)[1].name), BstExt))
            \in DOMAIN matrix

----------------------------------------------------------------------------
(* C7 *)

\* A non-blank line with fewer than two "||"-separated fields.
Malformed(line) == Strip(line) # <<>> /\ Len(Split(line, FieldSep)) < 2

PlanRead == pc \in {"loaded", "matrix", "done"}

\* C7: malformed input line.  Once the plan is read, every malformed line
\* has a diagnostic notice on stderr, contributed no element, and the lines
\* after it were processed: the run did not abort.
C7_MalformedLine ==
    (pc \notin {"start", "plan"} /\ bst_ok /\ Len(argv) >= 3
        /\ ParseInt(argv[3]).ok /\ (Len(argv) > 3 => ParseInt(argv[4]).ok)) =>
        /\ PlanRead
        /\ \A k \in DOMAIN stdout_lines :
              Malformed(stdout_lines[k]) =>
                  /\ \E m \in DOMAIN stderr :
                        stderr[m] = <<"Skipping malformed line", stdout_lines[k]>>
                  /\ elements = get_build_plan(SubSeq(stdout_lines, 1, k - 1)).elements
                                \o get_build_plan(SubSeq(stdout_lines, k + 1,
                                                         Len(stdout_lines))).elements

----------------------------------------------------------------------------
(* C8 *)

InvalidConfiguration ==
    \/ Len(argv) > 3 /\ ParseInt(argv[4]).ok /\ ParseInt(argv[4]).val < 0
    \/ Len(argv) >= 3 /\ ~ParseInt(argv[3]).ok

\* C8: invalid configuration.  With a negative coreSplit or an unparsable
\* chunk count the partitioning never runs and nothing is printed to
\* stdout: the run ends in the fatal error.
C8_InvalidConfiguration ==
    InvalidConfiguration => (pc \in {"start", "plan", "loaded", "fatal"} /\ stdout = <<>>)

----------------------------------------------------------------------------
(* C9 *)

WellFormed(line) == Len(Split(line, FieldSep)) >= 2

StateOf(line) == Strip(Split(line, FieldSep)[2])

Retained(line) == WellFormed(line) /\ StateOf(line) # CachedWord

ElementOf(line) ==
    LET f == Split(line, FieldSep)
    IN  [name  |-> Strip(f[1]),
         state |-> Strip(f[2]),
         key   |-> IF Len(f) >= 3 THEN Strip(f[3]) ELSE <<>>]

\* C9: filter.  The element list of get_build_plan is the sub-sequence of
\* the well-formed plan lines whose state is not "cached", in plan order:
\* no element has state "cached" and every well-formed line with another
\* state is there.
C9_Filter ==
    PlanRead =>
        LET kept == SelectSeq(stdout_lines, Retained)
        IN  /\ elements = [k \in 1..Len(kept) |-> ElementOf(kept[k])]
            /\ \A k \in DOMAIN elements : elements[k].state # CachedWord

C9_Witness ==
    /\ PlanRead
    /\ Len(stdout_lines) = 3
    /\ Len(elements) = 2
    /\ elements[1] # elements[2]
    /\ \E k \in DOMAIN stdout_lines :
          WellFormed(stdout_lines[k]) /\ StateOf(stdout_lines[k]) = CachedWord

----------------------------------------------------------------------------
(* C10 *)

\* C10: core/leaf split.  For coreSplit >= 0 the core group is the first
\* min(coreSplit, length) filtered elements and the leaf group the rest,
\* both in plan order; with fewer than coreSplit elements everything is
\* core, there are no leaves and the output's matrix and cache_keys are
\* empty.
C10_CoreLeafSplit ==
    /\ (pc \in {"matrix", "done"} /\ elements # <<>> /\ core_split >= 0) =>
          LET n == Min(core_split, Len(elements))
          IN  /\ Len(core_elements) = n
              /\ \A k \in 1..n : core_elements[k] = elements[k]
              /\ Len(leaf_elements) = Len(elements) - n
              /\ \A k \in 1..Len(leaf_elements) : leaf_elements[k] = elements[n + k]
              /\ core_targets = Join(Space, Names(core_elements))
    /\ (Printed /\ core_split >= 0 /\ Len(elements) < core_split) =>
          /\ core_elements = elements
          /\ leaf_elements = <<>>
          /\ stdout[1].core = Join(Space, Names(elements))
          /\ DOMAIN stdout[1].matrix = {}
          /\ DOMAIN stdout[1].cache_keys = {}

C10_Witness ==
    /\ Printed
    /\ core_split = 1
    /\ Len(elements) = 3
    /\ Len(core_elements) = 1
    /\ Len(leaf_elements) = 2
    /\ core_elements[1] # leaf_elements[1]

====
